---- MODULE Spec2Model ----
(***************************************************************************)
(* Model of helix-dispatch's fetchers.js: path resolution (getPathInfos),  *)
(* the resolver policies (defaultResolver, errorPageResolver), reference   *)
(* resolution (resolveRef) and plan construction (fetchers).               *)
(*                                                                         *)
(* Strings that the code inspects character by character (paths, refs)     *)
(* are sequences of one-character strings; positions are 1-based, so a     *)
(* JavaScript index i is the position i + 1 and "not found" (-1) is 0.     *)
(***************************************************************************)
EXTENDS Integers, Sequences, FiniteSets, TLC

VARIABLES
    pc,           \* position of the modelled call
    urlPath,      \* getPathInfos argument: the requested path
    mount,        \* getPathInfos argument: the mount path of the strain
    indices,      \* getPathInfos argument: the directory index names
    pathResult,   \* what getPathInfos produced: [threw, infos]
    unmountedAgain, \* the mount removal applied once more to each returned info
    res,          \* the completed action response handed to a resolver policy
    outcome,      \* the promise returned by the last policy application
    lastPolicy,   \* the policy applied last
    prevStatus,   \* res.statusCode when the last policy was applied
    napplied,     \* number of policy applications to res so far
    applied       \* the policy applications to res so far, oldest first

pathVars == <<urlPath, mount, indices, pathResult, unmountedAgain>>
policyVars == <<res, outcome, lastPolicy, prevStatus, napplied, applied>>

VARIABLES
    params,            \* the action params of the request given to fetchers
    planInfos,         \* the path infos fetchers computed (infos and actioninfos)
    opts0,             \* staticOpts and contentOpts as built by fetchers
    shared,            \* contentResolver is the staticResolver promise
    resolverP,         \* the promises returned by the resolveRef calls
    resolverReactions, \* reactions registered on them by updateOpts
    calls,             \* the invocations of the ref-resolution service
    optsP,             \* staticPromise and contentPromise
    reactions,         \* reactions registered on them by the plan's tasks
    plan,              \* the returned plan: base and fetch404, arrays of promises
    microtasks,        \* the promise jobs queued and not yet run
    log                \* what resolveRef logged

planVars == <<params, planInfos, opts0, shared, resolverP, resolverReactions, calls,
              optsP, reactions, plan, microtasks, log>>

VARIABLES
    redirectCall,      \* the invocation of the redirect service made by redirect
    redirectPromise,   \* the promise handed to abortRedirect
    abortPc,           \* position of the abortRedirect call
    abortP             \* the promise returned by abortRedirect

redirectVars == <<redirectCall, redirectPromise, abortPc, abortP>>

vars == <<pc, pathVars, policyVars, planVars, redirectVars>>

----------------------------------------------------------------------------
(* Bounds *)

MaxPathLen == 5
MaxIndices == 2
MinStatusCode == 100
MaxStatusCode == 599
MaxApplications == 2
MaxTargetLen == 3

----------------------------------------------------------------------------
(* String helpers: the JavaScript String methods used by the code *)

HTML == <<"h", "t", "m", "l">>

HELIX_STATIC_ACTION == <<"h", "e", "l", "i", "x", "-", "s", "e", "r", "v", "i", "c", "e", "s", "/", "s", "t", "a", "t", "i", "c", "@", "v", "1">>

RESOLVE_GIT_REF_ACTION == <<"h", "e", "l", "i", "x", "-", "s", "e", "r", "v", "i", "c", "e", "s", "/", "r", "e", "s", "o", "l", "v", "e", "-", "g", "i", "t", "-", "r", "e", "f", "@", "v", "1", "_", "l", "i", "n", "k">>

PATH_404 == <<"/", "4", "0", "4", ".">> \o HTML

INDEX_HTML == <<"i", "n", "d", "e", "x", ".">> \o HTML

DEFAULT_PACKAGE == <<"d", "e", "f", "a", "u", "l", "t">>

MD == <<"m", "d">>

RECURSIVE SeqsUpTo(_, _)
SeqsUpTo(S, n) ==
    IF n = 0 THEN {<<>>}
    ELSE LET shorter == SeqsUpTo(S, n - 1)
         IN  shorter \cup {Append(s, c) : s \in {t \in shorter : Len(t) = n - 1}, c \in S}

SetMax(S) == CHOOSE i \in S : \A j \in S : j <= i
SetMin(S) == CHOOSE i \in S : \A j \in S : i <= j

lastIndexOf(s, c) ==
    LET I == {i \in 1..Len(s) : s[i] = c}
    IN  IF I = {} THEN 0 ELSE SetMax(I)

startsWith(s, p) == Len(p) <= Len(s) /\ SubSeq(s, 1, Len(p)) = p

endsWith(s, p) == Len(p) <= Len(s) /\ SubSeq(s, Len(s) - Len(p) + 1, Len(s)) = p

\* s.substring(n) for the JavaScript index n: drops the first n characters
substringFrom(s, n) == SubSeq(s, n + 1, Len(s))

\* urlPath.replace(/\/+/, '/'): the regular expression has no g flag, so only
\* the leftmost run of separators is replaced by a single separator
replaceSlashes(s) ==
    LET I == {i \in 1..Len(s) : s[i] = "/"}
    IN  IF I = {} THEN s
        ELSE LET first == SetMin(I)
                 last  == SetMax({j \in first..Len(s) : \A k \in first..j : s[k] = "/"})
             IN  SubSeq(s, 1, first) \o SubSeq(s, last + 1, Len(s))

----------------------------------------------------------------------------
(* path.posix.resolve, as used by getPathInfos *)

\* process.cwd() of the action's process: an absolute directory
cwd == <<"/", "b">>

\* one step of path.posix normalizeString with allowAboveRoot = false
pushSegment(stack, seg) ==
    IF seg = <<>> \/ seg = <<".">> THEN stack
    ELSE IF seg = <<".", ".">>
         THEN IF stack = <<>> THEN stack ELSE SubSeq(stack, 1, Len(stack) - 1)
         ELSE Append(stack, seg)

RECURSIVE normalizeString(_, _, _, _)
normalizeString(p, i, seg, stack) ==
    IF i > Len(p) THEN pushSegment(stack, seg)
    ELSE IF p[i] = "/" THEN normalizeString(p, i + 1, <<>>, pushSegment(stack, seg))
    ELSE normalizeString(p, i + 1, Append(seg, p[i]), stack)

RECURSIVE joinSegments(_)
joinSegments(stack) ==
    IF stack = <<>> THEN <<>>
    ELSE IF Len(stack) = 1 THEN stack[1]
    ELSE stack[1] \o <<"/">> \o joinSegments(Tail(stack))

\* the right-to-left loop of resolve: prepend arguments until one is absolute,
\* falling back to the working directory
RECURSIVE resolveArgs(_, _, _)
resolveArgs(args, i, acc) ==
    IF i = 0 THEN cwd \o <<"/">> \o acc
    ELSE IF args[i] = <<>> THEN resolveArgs(args, i - 1, acc)
    ELSE LET joined == args[i] \o <<"/">> \o acc
         IN  IF args[i][1] = "/" THEN joined ELSE resolveArgs(args, i - 1, joined)

resolve(args) ==
    <<"/">> \o joinSegments(normalizeString(resolveArgs(args, Len(args), <<>>), 1, <<>>, <<>>))

----------------------------------------------------------------------------
(* getPathInfos *)

\* unique without the indexOf test: every item is kept
uniqueKeepsDuplicates(arr) == arr

\* An order-preserving uniqueness filter
RECURSIVE uniqueFrom(_, _, _)
uniqueFrom(arr, i, retval) ==
    IF i > Len(arr) THEN retval
    ELSE uniqueFrom(arr, i + 1,
             IF \E k \in 1..Len(retval) : retval[k] = arr[i]
             THEN retval ELSE Append(retval, arr[i]))

unique(arr) == uniqueFrom(arr, 1, <<>>)

\* candidateUrls without the '.html' appended to an extension-less path
candidateUrlsNoHtml(path0, idxs) ==
    LET p == replaceSlashes(path0)
    IN  IF lastIndexOf(p, ".") <= lastIndexOf(p, "/")
        THEN IF p = <<>> \/ endsWith(p, <<"/">>)
             THEN [k \in 1..Len(idxs) |->
                      resolve(<<IF p = <<>> THEN <<"/">> ELSE p, idxs[k]>>)]
             ELSE <<resolve(<<p>>)>>
        ELSE <<p>>

\* the candidate urls of a request path (the urls array before unique)
candidateUrls(path0, idxs) ==
    LET p == replaceSlashes(path0)
    IN  IF lastIndexOf(p, ".") <= lastIndexOf(p, "/")
        THEN IF p = <<>> \/ endsWith(p, <<"/">>)
             THEN [k \in 1..Len(idxs) |->
                      resolve(<<IF p = <<>> THEN <<"/">> ELSE p, idxs[k]>>)]
             ELSE <<resolve(<<p>>) \o <<".">> \o HTML>>
        ELSE <<p>>

\* a candidate without a dot after its last separator makes the map callback throw
urlThrows(url) == lastIndexOf(url, ".") <= lastIndexOf(url, "/")

\* pathInfo without the selector check: the selector stays in name and relPath
pathInfoNoSelector(url, mnt) ==
    LET lastSlash == lastIndexOf(url, "/")
        lastDot   == lastIndexOf(url, ".")
        relPath1  == SubSeq(url, 1, lastDot - 1)
        strip     == /\ mnt # <<>>
                     /\ mnt # <<"/">>
                     /\ startsWith(relPath1 \o <<"/">>, mnt \o <<"/">>)
    IN  [path     |-> IF strip THEN substringFrom(url, Len(mnt)) ELSE url,
         name     |-> SubSeq(url, lastSlash + 1, lastDot - 1),
         selector |-> <<>>,
         ext      |-> SubSeq(url, lastDot + 1, Len(url)),
         relPath  |-> IF strip THEN substringFrom(relPath1, Len(mnt)) ELSE relPath1]

\* removeMount testing relPath.startsWith(mount), without the separators
removeMountNoSeparator(pth, relPath, mnt) ==
    IF mnt # <<>> /\ mnt # <<"/">> /\ startsWith(relPath, mnt)
    THEN [path |-> substringFrom(pth, Len(mnt)), relPath |-> substringFrom(relPath, Len(mnt))]
    ELSE [path |-> pth, relPath |-> relPath]

\* remove mount root if needed: what the step leaves in pth and relPath
removeMount(pth, relPath, mnt) ==
    IF mnt # <<>> /\ mnt # <<"/">> /\ startsWith(relPath \o <<"/">>, mnt \o <<"/">>)
    THEN [path |-> substringFrom(pth, Len(mnt)), relPath |-> substringFrom(relPath, Len(mnt))]
    ELSE [path |-> pth, relPath |-> relPath]

\* the body of the map callback for a candidate that does not throw
pathInfo(url, mnt) ==
    LET lastSlash == lastIndexOf(url, "/")
        lastDot   == lastIndexOf(url, ".")
        ext       == SubSeq(url, lastDot + 1, Len(url))
        name0     == SubSeq(url, lastSlash + 1, lastDot - 1)
        relPath0  == SubSeq(url, 1, lastDot - 1)
        selDot    == lastIndexOf(relPath0, ".")
        hasSel    == selDot > lastSlash
        name      == IF hasSel THEN SubSeq(url, lastSlash + 1, selDot - 1) ELSE name0
        selector  == IF hasSel THEN SubSeq(relPath0, selDot + 1, Len(relPath0)) ELSE <<>>
        relPath1  == IF hasSel THEN SubSeq(relPath0, 1, selDot - 1) ELSE relPath0
        unmounted == removeMount(url, relPath1, mnt)
    IN  [path     |-> unmounted.path,
         name     |-> name,
         selector |-> selector,
         ext      |-> ext,
         relPath  |-> unmounted.relPath]

getPathInfos(path0, mnt, idxs) ==
    LET urls == unique(candidateUrls(path0, idxs))
    IN  IF \E k \in 1..Len(urls) : urlThrows(urls[k])
        THEN [threw |-> TRUE, infos |-> <<>>]
        ELSE [threw |-> FALSE, infos |-> [k \in 1..Len(urls) |-> pathInfo(urls[k], mnt)]]

----------------------------------------------------------------------------
(* Resolver policies *)

\* a promise is a record [state, value]; value is the rejection error when
\* state = "rejected" and is meaningless while state = "pending"
Pending == [state |-> "pending", value |-> <<>>]
Fulfilled(v) == [state |-> "fulfilled", value |-> v]
Rejected(e) == [state |-> "rejected", value |-> e]

\* defaultResolver with > 400 for >= 400
defaultResolverOffByOne(r) ==
    IF r.statusCode > 400
    THEN LET rp == r.actionOptions.params
         IN  Rejected([message    |-> <<r.actionOptions.idx, r.actionOptions.name,
                                        rp.owner, rp.repo, rp.ref,
                                        rp.path, r.statusCode>>,
                       statusCode |-> IF r.statusCode = 502 THEN 504 ELSE r.statusCode])
    ELSE Fulfilled(r)

\* Default resolver that rejects statusCodes >= 400.
defaultResolver(r) ==
    IF r.statusCode >= 400
    THEN LET rp == r.actionOptions.params
         IN  Rejected([message    |-> <<r.actionOptions.idx, r.actionOptions.name,
                                        rp.owner, rp.repo, rp.ref,
                                        rp.path, r.statusCode>>,
                       statusCode |-> IF r.statusCode = 502 THEN 504 ELSE r.statusCode])
    ELSE Fulfilled(r)

\* errorPageResolver without the rewrite of a 200
errorPageRewriteNone(r) == r

\* the response object after errorPageResolver ran: a 200 is overwritten in place
errorPageRewrite(r) ==
    IF r.statusCode = 200 THEN [r EXCEPT !.statusCode = 404] ELSE r

\* Resolver used for error pages. Resolves with a 404 if the action responded with a 200.
errorPageResolver(r) ==
    IF r.statusCode = 200
    THEN Fulfilled(errorPageRewrite(r))
    ELSE defaultResolver(r)

----------------------------------------------------------------------------
(* Reference resolution and plan construction: the functions used by fetchers *)

\* an absent parameter whose characters the code never inspects
undefined == "undefined"

\* a || b for strings: the empty sequence stands for '' and for undefined
orElse(a, b) == IF a = <<>> THEN b ELSE a

\* String.prototype.split(',')
RECURSIVE splitFrom(_, _, _, _)
splitFrom(str, i, cur, out) ==
    IF i > Len(str) THEN Append(out, cur)
    ELSE IF str[i] = "," THEN splitFrom(str, i + 1, <<>>, Append(out, cur))
    ELSE splitFrom(str, i + 1, Append(cur, str[i]), out)

split(str) == splitFrom(str, 1, <<>>, <<>>)

\* the object spread { ...a, ...b }
Merge(a, b) == [k \in DOMAIN a \cup DOMAIN b |-> IF k \in DOMAIN b THEN b[k] ELSE a[k]]

ShaLength == 40

HexLower == {"0", "1", "2", "3", "4", "5", "6", "7", "8", "9", "a", "b", "c", "d", "e", "f"}
HexUpper == {"A", "B", "C", "D", "E", "F"}

\* the match without the i flag: lower case only
matchesShaLowerCaseOnly(ref) ==
    /\ Len(ref) = ShaLength
    /\ \A i \in 1..Len(ref) : ref[i] \in HexLower

\* ref && ref.match(/^[a-f0-9]{40}$/i)
matchesSha(ref) ==
    /\ Len(ref) = ShaLength
    /\ \A i \in 1..Len(ref) : ref[i] \in HexLower \cup HexUpper

\* equalRepository that never finds two options equal
equalRepositoryNever(o1, o2) == FALSE

\* Checks if the options have same repository coordinates
equalRepository(o1, o2) ==
    /\ o1.owner = o2.owner
    /\ o1.repo = o2.repo
    /\ o1.ref = o2.ref

\* Extracts the Github token from the action params
extractGithubToken(p) ==
    IF p["GITHUB_TOKEN"] # undefined THEN p["GITHUB_TOKEN"]
    ELSE p["__ow_headers"]["x-github-token"]

withToken(o, p) ==
    IF extractGithubToken(p) # undefined
    THEN Merge(o, [GITHUB_TOKEN |-> extractGithubToken(p)])
    ELSE o

staticOptsOf(p) ==
    withToken([owner |-> p["static.owner"],
               repo  |-> p["static.repo"],
               ref   |-> p["static.ref"],
               esi   |-> p["static.esi"],
               root  |-> p["static.root"]], p)

contentOptsOf(p) ==
    withToken([owner   |-> p["content.owner"],
               repo    |-> p["content.repo"],
               ref     |-> p["content.ref"],
               package |-> p["content.package"],
               params  |-> p["params"]], p)

wskOptsOf(p) ==
    ("__ow_headers" :> p["__ow_headers"]) @@ ("__ow_method" :> p["__ow_method"])

\* the invocation resolveRef hands to ow.actions.invoke
resolveRefInvocation(opts, wskOpts) ==
    [name     |-> RESOLVE_GIT_REF_ACTION,
     blocking |-> TRUE,
     result   |-> TRUE,
     params   |-> Merge(opts, wskOpts)]

\* resolveRef up to its first await: the promise it returns and the service
\* invocations it issued
resolveRefStart(by, opts, wskOpts) ==
    IF matchesSha(opts.ref)
    THEN [promise |-> Fulfilled([ref |-> opts.ref]), calls |-> <<>>]
    ELSE [promise |-> Pending,
          calls   |-> <<[by         |-> by,
                         invocation |-> resolveRefInvocation(opts, wskOpts),
                         state      |-> "inflight",
                         reply      |-> <<>>]>>]

\* the reply carries a sha: res.body && res.body.sha
replyHasSha(reply) == ~reply.threw /\ reply.hasBody /\ reply.sha # <<>>

\* resolveRef whose catch block rethrows
resolveRefSettleRethrows(ref, reply) ==
    IF replyHasSha(reply) THEN Fulfilled([ref |-> reply.sha, branch |-> ref])
    ELSE IF reply.threw THEN Rejected([message |-> "invoke failed"])
    ELSE Fulfilled([ref |-> ref])

\* resolveRef after its await: how the promise it returned is settled
resolveRefSettle(ref, reply) ==
    IF replyHasSha(reply) THEN Fulfilled([ref |-> reply.sha, branch |-> ref])
    ELSE Fulfilled([ref |-> ref])

\* what resolveRef logs after its await
resolveRefLog(ref, reply) ==
    IF replyHasSha(reply) THEN <<>>
    ELSE IF reply.threw THEN <<[level |-> "error", ref |-> ref]>>
    ELSE <<[level |-> IF reply.statusCode = 0 \/ reply.statusCode >= 500
                      THEN "error" ELSE "info",
            ref   |-> ref]>>

\* updateOpts spreading the options over the resolver's result
updateOptsOptsLast(opts, ref) == Merge(ref, opts)

\* updates the options with the result of the resolver promise
updateOpts(opts, ref) == Merge(opts, ref)

\* a promise of the plan: the callbacks that settle it are given by kind; the
\* static tasks chain two callbacks, the second one settling the inner promise
NewTask(kind, info) ==
    [kind            |-> kind,
     info            |-> info,
     promise         |-> Pending,
     inner           |-> Pending,
     captured        |-> [ref |-> <<>>],
     adoptRegistered |-> FALSE]

NoInfo == [path |-> <<>>, name |-> <<>>, selector |-> <<>>, ext |-> <<>>, relPath |-> <<>>]

fetchrawtasks(infos0) == [k \in 1..Len(infos0) |-> NewTask("raw", infos0[k])]

fetchactiontasks(infos0) == [k \in 1..Len(infos0) |-> NewTask("action", infos0[k])]

fetchfallbacktasks(infos0) == [k \in 1..Len(infos0) |-> NewTask("fallback", infos0[k])]

\* fetch404tasks that does not look at the extension
fetch404tasksAlways(infos0) ==
    <<NewTask("content404", NoInfo), NewTask("static404", NoInfo)>>

fetch404tasks(infos0) ==
    IF infos0[1].ext = HTML
    THEN <<NewTask("content404", NoInfo), NewTask("static404", NoInfo)>>
    ELSE <<>>

\* baseTasks with the action tasks ahead of the raw tasks
baseTasksActionFirst(infos0, actioninfos) ==
    fetchactiontasks(actioninfos) \o fetchrawtasks(infos0) \o fetchfallbacktasks(infos0)

baseTasks(infos0, actioninfos) ==
    fetchrawtasks(infos0) \o fetchactiontasks(actioninfos) \o fetchfallbacktasks(infos0)

\* an idxOffset that is always 0
idxOffsetOfZero(base) == 0

\* the idxOffset fetchers hands to fetch404tasks: baseTasks.length
idxOffsetOf(base) == Len(base)

staticActionParams(pth) ==
    [path |-> pth, esi |-> "false", plain |-> TRUE]

\* actionname without the selector
actionnameNoSelector(info, contentOpts) ==
    orElse(contentOpts.package, DEFAULT_PACKAGE) \o <<"/">> \o info.ext

\* the name of the pipeline action of an action task
actionname(info, contentOpts) ==
    orElse(contentOpts.package, DEFAULT_PACKAGE) \o <<"/">>
        \o (IF info.selector # <<>> THEN info.selector \o <<"_">> ELSE <<>>)
        \o info.ext

\* the descriptor a task's callback returns, given the resolved options o of
\* the coordinate it is built from
descriptorOf(task, o, p, idxOffset) ==
    LET wskOpts == wskOptsOf(p)
    IN  CASE task.kind = "raw" ->
               [resolve  |-> "defaultResolver",
                name     |-> HELIX_STATIC_ACTION,
                blocking |-> TRUE,
                params   |-> Merge(Merge(Merge(staticActionParams(task.info.path),
                                               [root |-> p["content.root"]]),
                                         wskOpts), o)]
          [] task.kind = "action" ->
               [resolve  |-> "defaultResolver",
                name     |-> actionname(task.info, o),
                blocking |-> TRUE,
                params   |-> Merge(Merge([path     |-> task.info.relPath \o <<".">> \o MD,
                                          rootPath |-> orElse(p["rootPath"], <<>>)],
                                         wskOpts), o)]
          [] task.kind = "fallback" ->
               [resolve  |-> "defaultResolver",
                name     |-> HELIX_STATIC_ACTION,
                blocking |-> TRUE,
                params   |-> Merge(Merge(staticActionParams(task.info.path), wskOpts), o)]
          [] task.kind \in {"content404", "static404"} ->
               [resolve   |-> "errorPageResolver",
                name      |-> HELIX_STATIC_ACTION,
                blocking  |-> TRUE,
                idxOffset |-> idxOffset,
                params    |-> Merge(Merge(staticActionParams(PATH_404), wskOpts), o)]

\* a promise job: the reaction or thenable job to run, and the task it is for
Job(job, src, segment, i) == [job |-> job, src |-> src, segment |-> segment, i |-> i]

\* the reactions the tasks of a plan segment register on staticPromise or
\* contentPromise when fetchers builds them
registered(tasks, segment, src) ==
    LET mine(k) == IF src = "content"
                   THEN tasks[k].kind \in {"raw", "action", "content404"}
                   ELSE tasks[k].kind \in {"fallback", "static404"}
        jobOf(k) == Job(IF src = "content" THEN "task" ELSE "outer", src, segment, k)
        RECURSIVE collect(_)
        collect(k) == IF k > Len(tasks) THEN <<>>
                      ELSE (IF mine(k) THEN <<jobOf(k)>> ELSE <<>>) \o collect(k + 1)
    IN  collect(1)

----------------------------------------------------------------------------
(* The redirect adapters: redirect and abortRedirect *)

\* null, told apart from every text (a sequence of characters)
null == <<"null">>

REDIRECT_ACTION == <<"h", "e", "l", "i", "x", "-", "s", "e", "r", "v", "i", "c", "e", "s", "/", "r", "e", "d", "i", "r", "e", "c", "t", "@", "v", "1">>

\* loop detected, from webdav
LOOP_DETECTED == 508

TOO_MANY_REDIRECTS == <<"T", "o", "o", " ", "m", "a", "n", "y", " ", "i", "n", "t", "e", "r", "n", "a", "l", " ", "r", "e", "d", "i", "r", "e", "c", "t", "s", " ", "t", "o", " ">>

\* str.replace(/c/g, by) for a one-character pattern c
RECURSIVE replaceAll(_, _, _)
replaceAll(str, c, by) ==
    IF str = <<>> THEN <<>>
    ELSE (IF Head(str) = c THEN by ELSE <<Head(str)>>) \o replaceAll(Tail(str), c, by)

AMP == <<"&", "a", "m", "p", ";">>
LT == <<"&", "l", "t", ";">>
GT == <<"&", "g", "t", ";">>

\* the three replacements with '&' replaced last
escapeTargetAmpersandLast(target) ==
    LET t == IF target = null THEN <<>> ELSE target
    IN  replaceAll(replaceAll(replaceAll(t, "<", LT), ">", GT), "&", AMP)

\* (target || '').replace(/&/g, '&amp;').replace(/</g, '&lt;').replace(/>/g, '&gt;')
escapeTarget(target) ==
    LET t == IF target = null THEN <<>> ELSE target
    IN  replaceAll(replaceAll(replaceAll(t, "&", AMP), "<", LT), ">", GT)

\* what redirect returns once the invocation returned result
redirectResult(result) == [type |-> "none", target |-> null, result |-> result]

\* the promise of abortRedirect once the awaited redirectPromise is settled:
\* the await throws the rejection of a rejected promise
abortRedirectSettle(promise) ==
    IF promise.state = "rejected"
    THEN Rejected(promise.value)
    ELSE Fulfilled([statusCode |-> LOOP_DETECTED,
                    body       |-> TOO_MANY_REDIRECTS \o escapeTarget(promise.value.target)])

----------------------------------------------------------------------------
(* Inputs of the path resolver *)

PathChars == {"/", ".", "a", "b"}

Paths == SeqsUpTo(PathChars, MaxPathLen)

Mounts == {<<>>, <<"/">>, <<"/", "a">>}

IndexNames ==
    { <<"a", ".", "b">>,                 \* a file name with an extension
      <<"b", ".", "a">>,
      <<"a">> }                          \* no extension

DefaultIndices == <<INDEX_HTML>>

IndexLists == {l \in SeqsUpTo(IndexNames, MaxIndices) : Len(l) >= 1}

\* index lists with names that are no file names: the parent and the current
\* directory, an empty name, a name of a dot and an extension only, and a
\* name with a trailing separator
OddIndexLists ==
    { << <<".", ".">> >>,
      << <<".">> >>,
      << <<"a", ".", "b">>, <<>> >>,
      << <<".", "a">> >>,
      << <<"a", ".", "b", "/">> >> }

\* the path is one for which getPathInfos reads the index names
isDirectoryPath(p) == p = <<>> \/ endsWith(p, <<"/">>)

NoResult == [threw |-> FALSE, infos |-> <<>>]

\* the variables of the path resolver while another part is exercised
IdlePath ==
    /\ urlPath = <<>>
    /\ mount = <<>>
    /\ indices = DefaultIndices
    /\ pathResult = NoResult
    /\ unmountedAgain = <<>>

\* the variables of the resolver policies while another part is exercised
IdlePolicy ==
    /\ res = [statusCode |-> 0]
    /\ outcome = Pending
    /\ lastPolicy = "none"
    /\ prevStatus = 0
    /\ napplied = 0
    /\ applied = <<>>

\* the variables of the plan before fetchers ran
NoPlan ==
    /\ planInfos = [infos |-> <<>>, actioninfos |-> <<>>]
    /\ opts0 = [static |-> [ref |-> <<>>], content |-> [ref |-> <<>>]]
    /\ shared = FALSE
    /\ resolverP = [static |-> Pending, content |-> Pending]
    /\ resolverReactions = [static |-> <<>>, content |-> <<>>]
    /\ calls = <<>>
    /\ optsP = [static |-> Pending, content |-> Pending]
    /\ reactions = [static |-> <<>>, content |-> <<>>]
    /\ plan = [base |-> <<>>, fetch404 |-> <<>>, idxOffset |-> 0]
    /\ microtasks = <<>>
    /\ log = <<>>

\* the variables of the plan while another part is exercised
IdlePlan ==
    /\ params = [path |-> <<>>]
    /\ NoPlan

\* the variables of the redirect adapters before any of them ran
IdleRedirect ==
    /\ redirectCall = "none"
    /\ redirectPromise = Pending
    /\ abortPc = "uncalled"
    /\ abortP = Pending

InitPath ==
    /\ pc = "start"
    /\ urlPath \in Paths
    /\ mount \in Mounts
    /\ indices \in (IF isDirectoryPath(urlPath)
                    THEN IndexLists \cup OddIndexLists ELSE {DefaultIndices})
    /\ pathResult = NoResult
    /\ unmountedAgain = <<>>
    /\ IdlePolicy
    /\ IdlePlan
    /\ IdleRedirect

CallGetPathInfos ==
    /\ pc = "start"
    /\ pathResult' = getPathInfos(urlPath, mount, indices)
    /\ pc' = "done"
    /\ UNCHANGED <<urlPath, mount, indices, unmountedAgain, policyVars, planVars, redirectVars>>

\* the mount removal of getPathInfos, applied to the infos it returned
RemoveMountAgain ==
    /\ pc = "done"
    /\ ~pathResult.threw
    /\ unmountedAgain' = [k \in 1..Len(pathResult.infos) |->
                             removeMount(pathResult.infos[k].path,
                                         pathResult.infos[k].relPath, mount)]
    /\ pc' = "unmounted"
    /\ UNCHANGED <<urlPath, mount, indices, pathResult, policyVars, planVars, redirectVars>>

NextPath == CallGetPathInfos \/ RemoveMountAgain

SpecPath == InitPath /\ [][NextPath]_vars

----------------------------------------------------------------------------
(* Applying the resolver policies to a completed response *)

StatusCodes == MinStatusCode..MaxStatusCode

\* the invocation descriptor the executor attached to the response
ActionOptions ==
    { [idx |-> 0, name |-> HELIX_STATIC_ACTION,
       params |-> [owner |-> "o", repo |-> "r", ref |-> "master", path |-> "/index.html"]],
      [idx |-> 4, name |-> HELIX_STATIC_ACTION,
       params |-> [owner |-> "o", repo |-> "r", ref |-> "master", path |-> "/404.html"]] }

Responses == [statusCode : StatusCodes, actionOptions : ActionOptions]

InitPolicy ==
    /\ pc = "policy"
    /\ IdlePath
    /\ IdlePlan
    /\ IdleRedirect
    /\ res \in Responses
    /\ outcome = Pending
    /\ lastPolicy = "none"
    /\ prevStatus = 0
    /\ napplied = 0
    /\ applied = <<>>

\* one policy application: the policy, the statusCode it was given, and the
\* state and statusCode of the promise it returned
Application(policy, r, promise) ==
    [policy     |-> policy,
     given      |-> r.statusCode,
     state      |-> promise.state,
     statusCode |-> promise.value.statusCode]

\* the executor calls descriptor.resolve(res) for a descriptor with the default policy
ApplyDefault ==
    /\ pc = "policy"
    /\ napplied < MaxApplications
    /\ outcome' = defaultResolver(res)
    /\ lastPolicy' = "default"
    /\ prevStatus' = res.statusCode
    /\ napplied' = napplied + 1
    /\ applied' = Append(applied, Application("default", res, defaultResolver(res)))
    /\ UNCHANGED <<pc, pathVars, planVars, redirectVars, res>>

\* the executor calls descriptor.resolve(res) for a descriptor with the error-page policy
ApplyErrorPage ==
    /\ pc = "policy"
    /\ napplied < MaxApplications
    /\ outcome' = errorPageResolver(res)
    /\ res' = errorPageRewrite(res)
    /\ lastPolicy' = "error-page"
    /\ prevStatus' = res.statusCode
    /\ napplied' = napplied + 1
    /\ applied' = Append(applied, Application("error-page", res, errorPageResolver(res)))
    /\ UNCHANGED <<pc, pathVars, planVars, redirectVars>>

NextPolicy == ApplyDefault \/ ApplyErrorPage

SpecPolicy == InitPolicy /\ [][NextPolicy]_vars

accepted == outcome.state = "fulfilled"
rejected == outcome.state = "rejected"

\* C2: the default policy accepts a response, returning it unchanged, exactly
\* when its statusCode is below 400; a response with statusCode >= 400 is
\* rejected with an error whose statusCode is 504 for a 502 and the response's
\* statusCode otherwise.
C2_DefaultPolicy ==
    lastPolicy = "default" =>
        /\ accepted <=> prevStatus < 400
        /\ rejected <=> prevStatus >= 400
        /\ res.statusCode = prevStatus
        /\ accepted => outcome.value = res
        /\ rejected => outcome.value.statusCode = (IF prevStatus = 502 THEN 504 ELSE prevStatus)

\* the default policy has rejected a 502 with a 504
C2_Witness ==
    /\ lastPolicy = "default"
    /\ prevStatus = 502
    /\ rejected
    /\ outcome.value.statusCode = 504

\* C3 (as stated): the error-page policy accepts a 200 rewritten to 404, lets a
\* 404 pass through unchanged (accepted with statusCode 404) and rejects a 500.
C3_AsStated ==
    lastPolicy = "error-page" =>
        /\ prevStatus = 200 => (accepted /\ outcome.value.statusCode = 404)
        /\ prevStatus = 404 => (accepted /\ outcome.value.statusCode = 404)
        /\ prevStatus = 500 => rejected

\* C3 (amended): the error-page policy accepts a 200 and rewrites its statusCode
\* to 404; every other statusCode gets the default policy's decision: a
\* statusCode below 400 is accepted unchanged, and a statusCode >= 400 is
\* rejected with that statusCode (504 for 502) on the error, so a 404 is
\* rejected with 404 and a 500 with 500.
C3_ErrorPagePolicy ==
    lastPolicy = "error-page" =>
        /\ prevStatus = 200 =>
              (accepted /\ outcome.value.statusCode = 404 /\ res.statusCode = 404)
        /\ (prevStatus # 200 /\ prevStatus < 400) =>
              (accepted /\ outcome.value = res /\ res.statusCode = prevStatus)
        /\ prevStatus >= 400 =>
              /\ rejected
              /\ res.statusCode = prevStatus
              /\ outcome.value.statusCode = (IF prevStatus = 502 THEN 504 ELSE prevStatus)

\* the error-page policy has rejected a 404 response with statusCode 404
C3_Witness ==
    /\ lastPolicy = "error-page"
    /\ prevStatus = 404
    /\ rejected
    /\ outcome.value.statusCode = 404

\* C13 (as stated): a policy application changes no state that a later
\* application observes, and applying the same policy again to the same
\* response gives the same accept/reject decision and the same status code.
C13_AsStated ==
    \A i, j \in 1..Len(applied) :
        i < j =>
            /\ applied[j].given = applied[i].given
            /\ applied[j].policy = applied[i].policy =>
                  /\ applied[j].state = applied[i].state
                  /\ applied[j].statusCode = applied[i].statusCode

\* the statusCode a policy leaves on the response it was given
leftOnResponse(a) ==
    IF a.policy = "error-page" /\ a.given = 200 THEN 404 ELSE a.given

\* C13 (amended): a policy decision is a function of the response's statusCode
\* at the moment the policy is applied: either policy accepts exactly when
\* that statusCode is below 400.  The default policy leaves the response as it
\* is, so applying it again gives the same decision and status code; the
\* error-page policy overwrites the statusCode of a 200 response with 404 in
\* place and changes no other response, so any later application to that
\* response is given 404 and rejects it with 404, while error-page applied
\* again to a response whose statusCode was not 200 gives the same decision
\* and the same status code.
C13_PolicyDecisions ==
    /\ \A j \in 1..Len(applied) :
          /\ applied[j].state = "fulfilled" <=> applied[j].given < 400
          /\ applied[j].state = "rejected" <=> applied[j].given >= 400
          /\ applied[j].statusCode =
                (IF applied[j].given = 502 THEN 504 ELSE leftOnResponse(applied[j]))
    /\ \A j \in 1..(Len(applied) - 1) :
          /\ applied[j + 1].given = leftOnResponse(applied[j])
          /\ (applied[j].policy = "error-page" /\ applied[j].given = 200) =>
                (applied[j + 1].state = "rejected" /\ applied[j + 1].statusCode = 404)
          /\ (/\ applied[j + 1].policy = applied[j].policy
              /\ ~(applied[j].policy = "error-page" /\ applied[j].given = 200)) =>
                /\ applied[j + 1].state = applied[j].state
                /\ applied[j + 1].statusCode = applied[j].statusCode
    /\ Len(applied) >= 1 => res.statusCode = leftOnResponse(applied[Len(applied)])

\* the error-page policy has accepted a 200 response as 404 and, applied again
\* to the same response, has rejected it
C13_Witness ==
    /\ Len(applied) = 2
    /\ applied[1] = [policy |-> "error-page", given |-> 200,
                     state |-> "fulfilled", statusCode |-> 404]
    /\ applied[2] = [policy |-> "error-page", given |-> 404,
                     state |-> "rejected", statusCode |-> 404]

----------------------------------------------------------------------------
(* Properties of getPathInfos, checked under SpecPath *)

returned == pc = "done" /\ ~pathResult.threw

infos == pathResult.infos

\* the path has a dot after its last separator
hasExplicitExtension(p) == lastIndexOf(p, ".") > lastIndexOf(p, "/")

\* the directory that the index names are resolved against
directoryOf(p) == IF p = <<>> THEN <<"/">> ELSE p

\* an absolute path without repeated separators and without "." or ".." segments
isNormalisedAbsolute(p) ==
    /\ startsWith(p, <<"/">>)
    /\ \A i \in 1..(Len(p) - 1) : ~(p[i] = "/" /\ p[i + 1] = "/")
    /\ \A i \in 1..Len(p) : \A j \in i..Len(p) :
          (/\ (i = 1 \/ p[i - 1] = "/")
           /\ (j = Len(p) \/ p[j + 1] = "/"))
          => SubSeq(p, i, j) \notin {<<".">>, <<".", ".">>}

\* a file name with a dot and without separator, other than "." and ".."
isPlainFileName(n) ==
    /\ \E i \in 1..Len(n) : n[i] = "."
    /\ \A i \in 1..Len(n) : n[i] # "/"
    /\ n \notin {<<".">>, <<".", ".">>}

\* p is url, or url without the mount prefix
isUrlLessMount(p, url) ==
    \/ p = url
    \/ /\ mount \notin {<<>>, <<"/">>}
       /\ startsWith(url, mount)
       /\ p = substringFrom(url, Len(mount))

\* C8 (as stated): for a path that is empty or ends in '/', what getPathInfos
\* returns is exactly one descriptor per index name, in the given order, and
\* every descriptor's path starts with the directory path.
C8_AsStated ==
    (returned /\ isDirectoryPath(urlPath)) =>
        /\ Len(infos) = Len(indices)
        /\ \A k \in 1..Len(infos) :
              /\ isUrlLessMount(infos[k].path, resolve(<<directoryOf(urlPath), indices[k]>>))
              /\ startsWith(infos[k].path, directoryOf(urlPath))

\* the first position of the index list whose candidate gives descriptor j
firstIndexFor(j) ==
    LET K == {k \in 1..Len(indices) :
                 isUrlLessMount(infos[j].path, directoryOf(urlPath) \o indices[k])}
    IN  IF K = {} THEN 0 ELSE SetMin(K)

\* C8 (amended): for an absolute, normalised path ending in '/' (or the empty
\* path) and index names that are plain file names with an extension,
\* getPathInfos returns exactly one descriptor per distinct index name, in the
\* order of first occurrence, and every descriptor's path is the directory path
\* followed by its index name, less the mount prefix where that is stripped.
C8_OnePerDistinctIndex ==
    (/\ pc = "done"
     /\ isDirectoryPath(urlPath)
     /\ isNormalisedAbsolute(directoryOf(urlPath))
     /\ \A k \in 1..Len(indices) : isPlainFileName(indices[k])) =>
        /\ ~pathResult.threw
        /\ Len(infos) = Cardinality({indices[k] : k \in 1..Len(indices)})
        /\ \A k \in 1..Len(indices) : \E j \in 1..Len(infos) : firstIndexFor(j) = k
              \/ \E k0 \in 1..(k - 1) : indices[k0] = indices[k]
        /\ \A j \in 1..Len(infos) : firstIndexFor(j) > 0
        /\ \A i, j \in 1..Len(infos) : i < j => firstIndexFor(i) < firstIndexFor(j)

\* a directory request with a repeated index name has been resolved
C8_Witness ==
    /\ returned
    /\ urlPath = <<"/", "a", "/">>
    /\ indices = << <<"a", ".", "b">>, <<"a", ".", "b">> >>
    /\ Len(infos) = 1
    /\ infos[1].path = <<"/", "a", "/", "a", ".", "b">>

\* the text after the last dot of the path
extensionOf(p) == SubSeq(p, lastIndexOf(p, ".") + 1, Len(p))

\* C9 (as stated): for a path with an explicit extension getPathInfos returns
\* exactly one descriptor, with that extension and with an empty selector.
C9_AsStated ==
    (returned /\ hasExplicitExtension(urlPath)) =>
        /\ Len(infos) = 1
        /\ infos[1].ext = extensionOf(urlPath)
        /\ infos[1].selector = <<>>

\* the positions of the dots in the last segment of the path
lastSegmentDots(p) == {i \in (lastIndexOf(p, "/") + 1)..Len(p) : p[i] = "."}

\* the text between the last two dots of the last segment, empty with one dot
expectedSelector(p) ==
    LET D == lastSegmentDots(p)
    IN  IF Cardinality(D) < 2 THEN <<>>
        ELSE LET d2 == SetMax(D)
                 d1 == SetMax(D \ {d2})
             IN  SubSeq(p, d1 + 1, d2 - 1)

\* C9 (amended): for a path with an explicit extension getPathInfos returns
\* exactly one descriptor, with that extension; its selector is empty when the
\* last segment has a single dot and is the text between the last two dots of
\* the last segment otherwise.
C9_OneDescriptorWithExt ==
    (pc = "done" /\ hasExplicitExtension(urlPath)) =>
        /\ ~pathResult.threw
        /\ Len(infos) = 1
        /\ infos[1].ext = extensionOf(urlPath)
        /\ infos[1].selector = expectedSelector(replaceSlashes(urlPath))

\* a path with a single dot and a path with two dots have been resolved
C9_Witness ==
    /\ returned
    /\ urlPath = <<"/", "a", ".", "b">>
    /\ Len(infos) = 1
    /\ infos[1].ext = <<"b">>
    /\ infos[1].selector = <<>>

\* C10 (as stated): for a path without extension that does not end in '/'
\* getPathInfos returns exactly one descriptor and its ext is 'html'.
C10_AsStated ==
    (/\ returned
     /\ ~hasExplicitExtension(urlPath)
     /\ ~endsWith(urlPath, <<"/">>)) =>
        /\ Len(infos) = 1
        /\ infos[1].ext = HTML

\* C10 (amended): for a non-empty path without extension that does not end in
\* '/' getPathInfos returns exactly one descriptor and its ext is 'html'.
C10_ExtensionlessIsHtml ==
    (/\ pc = "done"
     /\ urlPath # <<>>
     /\ ~hasExplicitExtension(urlPath)
     /\ ~endsWith(urlPath, <<"/">>)) =>
        /\ ~pathResult.threw
        /\ Len(infos) = 1
        /\ infos[1].ext = HTML

\* an extension-less request has been resolved to its html candidate
C10_Witness ==
    /\ returned
    /\ urlPath = <<"/", "a">>
    /\ Len(infos) = 1
    /\ infos[1].ext = HTML
    /\ infos[1].path = <<"/", "a", ".">> \o HTML

\* the text after the last separator of p (all of p without separator)
lastSegment(p) == SubSeq(p, lastIndexOf(p, "/") + 1, Len(p))

\* path = relPath + ('.' + selector when selector is non-empty) + '.' + ext
decomposes(d) ==
    d.path = d.relPath
             \o (IF d.selector # <<>> THEN <<".">> \o d.selector ELSE <<>>)
             \o <<".">> \o d.ext

FooInfoHtml == <<"/", "f", "o", "o", ".", "i", "n", "f", "o", ".">> \o HTML

urls == unique(candidateUrls(urlPath, indices))

\* the mount is one that getPathInfos removes
isRemovableMount == mount # <<>> /\ mount # <<"/">>

\* relPath + '/' starts with mount + '/'
underMount(relPath) == startsWith(relPath \o <<"/">>, mount \o <<"/">>)

\* for a non-empty, non-root mount, the prefix is removed from both path and
\* relPath exactly when the unstripped relPath + '/' starts with mount + '/'
removedExactlyUnderMount ==
    (pc \in {"done", "unmounted"} /\ ~pathResult.threw /\ isRemovableMount) =>
        \A k \in 1..Len(infos) :
            LET whole == pathInfo(urls[k], <<>>)
            IN  IF underMount(whole.relPath)
                THEN /\ infos[k].path = substringFrom(whole.path, Len(mount))
                     /\ infos[k].relPath = substringFrom(whole.relPath, Len(mount))
                     /\ mount \o infos[k].path = whole.path
                     /\ mount \o infos[k].relPath = whole.relPath
                ELSE /\ infos[k].path = whole.path
                     /\ infos[k].relPath = whole.relPath

\* C12 (as stated): mount stripping is applied exactly when relPath + '/'
\* starts with mount + '/', and stripping the same mount from an already
\* stripped descriptor changes nothing.
C12_AsStated ==
    /\ removedExactlyUnderMount
    /\ pc = "unmounted" =>
          \A k \in 1..Len(infos) :
              unmountedAgain[k] = [path |-> infos[k].path, relPath |-> infos[k].relPath]

\* C12 (amended): mount stripping is applied exactly when relPath + '/' starts
\* with mount + '/'; stripping the same mount from an already stripped
\* descriptor changes nothing unless the descriptor's relPath + '/' still
\* starts with mount + '/', in which case the prefix is removed once more from
\* both path and relPath.
C12_MountStripping ==
    /\ removedExactlyUnderMount
    /\ pc = "unmounted" =>
          \A k \in 1..Len(infos) :
              IF isRemovableMount /\ underMount(infos[k].relPath)
              THEN /\ mount \o unmountedAgain[k].path = infos[k].path
                   /\ mount \o unmountedAgain[k].relPath = infos[k].relPath
              ELSE unmountedAgain[k] =
                       [path |-> infos[k].path, relPath |-> infos[k].relPath]

\* a path that starts with the mount twice has been stripped once by
\* getPathInfos and once more by the repeated removal
C12_Witness ==
    /\ pc = "unmounted"
    /\ mount = <<"/", "a">>
    /\ urlPath = <<"/", "a", "/", "a">>
    /\ infos[1].path = <<"/", "a", ".">> \o HTML
    /\ infos[1].relPath = <<"/", "a">>
    /\ unmountedAgain[1] = [path |-> <<".">> \o HTML, relPath |-> <<>>]

\* p contains two consecutive separators
hasRepeatedSeparator(p) == \E i \in 1..(Len(p) - 1) : p[i] = "/" /\ p[i + 1] = "/"

\* C18 (as stated): for every input path, no candidate produced by getPathInfos
\* contains two consecutive '/' characters, wherever in the path and however
\* many times the repetition occurs.
C18_AsStated ==
    returned =>
        /\ \A k \in 1..Len(urls) : ~hasRepeatedSeparator(urls[k])
        /\ \A k \in 1..Len(infos) : ~hasRepeatedSeparator(infos[k].path)

\* getPathInfos has been called and has thrown
threw == pc = "done" /\ pathResult.threw

\* no dot after the last separator
lacksDot(p) == lastIndexOf(p, ".") <= lastIndexOf(p, "/")

\* getPathInfos throws exactly when a candidate has no dot after its last
\* separator
throwsExactlyOnDotlessCandidate ==
    pc = "done" => (pathResult.threw <=> \E k \in 1..Len(urls) : lacksDot(urls[k]))

\* C21 (as stated): getPathInfos throws exactly when a candidate has no dot
\* after its last separator, and the only way to reach the failure is a
\* directory-index name without an extension on a path ending in '/' (or
\* empty); for every other input getPathInfos returns normally.
C21_AsStated ==
    /\ throwsExactlyOnDotlessCandidate
    /\ threw =>
          /\ isDirectoryPath(urlPath)
          /\ \E k \in 1..Len(indices) : lacksDot(indices[k])

\* the last segment of the name is one that path resolution removes
endsInDotSegment(n) == lastSegment(n) \in {<<".">>, <<".", ".">>}

\* C21 (amended): getPathInfos throws exactly when a candidate has no dot
\* after its last separator, and the only way to reach the failure is a path
\* ending in '/' (or empty) with a directory-index name that has no dot after
\* its last separator or whose last segment is '.' or '..'; for every other
\* input getPathInfos returns normally.
C21_FailFast ==
    /\ throwsExactlyOnDotlessCandidate
    /\ threw =>
          /\ isDirectoryPath(urlPath)
          /\ \E k \in 1..Len(indices) :
                lacksDot(indices[k]) \/ endsInDotSegment(indices[k])

\* the index name '..' on a directory path has made getPathInfos throw
C21_Witness ==
    /\ threw
    /\ urlPath = <<"/", "a", "/">>
    /\ indices = << <<".", ".">> >>
    /\ urls = << <<"/">> >>

----------------------------------------------------------------------------
(* Building a plan: fetchers, the ref-resolution service and the promise jobs *)

Master == <<"m", "a", "s", "t", "e", "r">>
NoRef == <<>>
ShaLower == [i \in 1..ShaLength |-> IF i % 2 = 0 THEN "a" ELSE "1"]
ShaMixed == [i \in 1..ShaLength |-> IF i % 2 = 0 THEN "A" ELSE "f"]
NotHex40 == [i \in 1..ShaLength |-> IF i = ShaLength THEN "g" ELSE "a"]

Refs == {Master, NoRef, ShaLower, ShaMixed, NotHex40}

\* the path parameters of the requests
Shapes ==
    { \* no path: the directory index of the root
      [path |-> <<>>, rootPath |-> <<>>, index |-> <<>>, package |-> <<>>],
      \* extension-less
      [path |-> <<"/", "a">>, rootPath |-> <<>>, index |-> <<>>, package |-> <<>>],
      \* an extension other than html
      [path |-> <<"/", "a", ".", "b">>, rootPath |-> <<>>, index |-> <<>>, package |-> <<>>],
      \* a selector, and a package for the action
      [path |-> <<"/", "a", ".", "b", ".">> \o HTML, rootPath |-> <<>>, index |-> <<>>,
       package |-> <<"p">>],
      \* two directory indices below the mount, html first
      [path |-> <<"/", "a", "/">>, rootPath |-> <<"/", "a">>,
       index |-> INDEX_HTML \o <<",", "a", ".", "b">>, package |-> <<>>],
      \* two directory indices, html last
      [path |-> <<"/">>, rootPath |-> <<>>,
       index |-> <<"a", ".", "b", ",">> \o INDEX_HTML, package |-> <<>>],
      \* a repeated directory index
      [path |-> <<"/">>, rootPath |-> <<>>,
       index |-> INDEX_HTML \o <<",">> \o INDEX_HTML, package |-> <<>>],
      \* a directory index without extension
      [path |-> <<"/">>, rootPath |-> <<>>, index |-> <<"a">>, package |-> <<>>] }

Tokens == {undefined, "token"}

ParamsOf(shape, token, sref, cowner, cref) ==
    ("path" :> shape.path) @@ ("rootPath" :> shape.rootPath)
    @@ ("content.index" :> shape.index) @@ ("content.package" :> shape.package)
    @@ ("GITHUB_TOKEN" :> token) @@ ("__ow_headers" :> ("x-github-token" :> undefined))
    @@ ("__ow_method" :> "get") @@ ("params" :> undefined)
    @@ ("static.owner" :> "o") @@ ("static.repo" :> "r") @@ ("static.ref" :> sref)
    @@ ("static.esi" :> undefined) @@ ("static.root" :> "sroot")
    @@ ("content.owner" :> cowner) @@ ("content.repo" :> "r") @@ ("content.ref" :> cref)
    @@ ("content.root" :> "croot")

Requests ==
    {ParamsOf(shape, token, sref, cowner, cref) :
        shape \in Shapes, token \in Tokens, sref \in Refs, cowner \in {"o", "p"}, cref \in Refs}

\* the commit the ref-resolution service finds for a coordinate
ResolvedSha(coordinate) ==
    [i \in 1..ShaLength |->
        IF i = 1 THEN (IF coordinate.owner = "o" THEN "1" ELSE "2")
        ELSE IF i = 2 THEN (IF coordinate.ref = Master THEN "3"
                            ELSE IF coordinate.ref = NoRef THEN "4" ELSE "5")
        ELSE "0"]

\* what awaiting ow.actions.invoke can give: an exception, a body with a sha,
\* a body without sha (statusCode 404 or 500), or no body and no statusCode
Replies(invocation) ==
    { [threw |-> TRUE, statusCode |-> 0, hasBody |-> FALSE, sha |-> <<>>],
      [threw |-> FALSE, statusCode |-> 200, hasBody |-> TRUE,
       sha |-> ResolvedSha(invocation.params)],
      [threw |-> FALSE, statusCode |-> 404, hasBody |-> TRUE, sha |-> <<>>],
      [threw |-> FALSE, statusCode |-> 500, hasBody |-> TRUE, sha |-> <<>>],
      [threw |-> FALSE, statusCode |-> 0, hasBody |-> FALSE, sha |-> <<>>] }

Init ==
    /\ pc = "request"
    /\ IdlePath
    /\ IdlePolicy
    /\ IdleRedirect
    /\ params \in Requests
    /\ NoPlan

\* the synchronous part of fetchers(params)
Fetchers ==
    /\ pc = "request"
    /\ LET dirindex    == split(orElse(params["content.index"], INDEX_HTML))
           infos0      == getPathInfos(orElse(params["path"], <<"/">>),
                                       orElse(params["rootPath"], <<>>), dirindex)
           actioninfos == getPathInfos(orElse(params["path"], <<"/">>),
                                       orElse(params["rootPath"], <<>>), dirindex)
       IN  IF infos0.threw \/ actioninfos.threw
           THEN /\ pc' = "threw"
                /\ UNCHANGED planVars
           ELSE LET staticOpts  == staticOptsOf(params)
                    contentOpts == contentOptsOf(params)
                    wskOpts     == wskOptsOf(params)
                    staticStart == resolveRefStart("static", staticOpts, wskOpts)
                    same        == equalRepository(staticOpts, contentOpts)
                    contentStart == IF same
                                    THEN [promise |-> staticStart.promise, calls |-> <<>>]
                                    ELSE resolveRefStart("content", contentOpts, wskOpts)
                    staticJob   == Job("updateOpts", "static", "none", 0)
                    contentJob  == Job("updateOpts", "content", "none", 0)
                    staticDone  == staticStart.promise.state = "fulfilled"
                    contentDone == contentStart.promise.state = "fulfilled"
                    base        == baseTasks(infos0.infos, actioninfos.infos)
                    tasks404    == fetch404tasks(infos0.infos)
                IN  /\ pc' = "built"
                    /\ planInfos' = [infos |-> infos0.infos, actioninfos |-> actioninfos.infos]
                    /\ opts0' = [static |-> staticOpts, content |-> contentOpts]
                    /\ shared' = same
                    /\ resolverP' = [static  |-> staticStart.promise,
                                     content |-> IF same THEN Pending ELSE contentStart.promise]
                    /\ calls' = staticStart.calls \o contentStart.calls
                    /\ resolverReactions' =
                          [static  |-> (IF staticDone THEN <<>> ELSE <<staticJob>>)
                                       \o (IF same /\ ~contentDone THEN <<contentJob>> ELSE <<>>),
                           content |-> IF ~same /\ ~contentDone THEN <<contentJob>> ELSE <<>>]
                    /\ microtasks' = (IF staticDone THEN <<staticJob>> ELSE <<>>)
                                     \o (IF contentDone THEN <<contentJob>> ELSE <<>>)
                    /\ optsP' = [static |-> Pending, content |-> Pending]
                    /\ reactions' =
                          [content |-> registered(base, "base", "content")
                                       \o registered(tasks404, "fetch404", "content"),
                           static  |-> registered(base, "base", "static")
                                       \o registered(tasks404, "fetch404", "static")]
                    /\ plan' = [base |-> base, fetch404 |-> tasks404, idxOffset |-> idxOffsetOf(base)]
                    /\ UNCHANGED <<params, log>>
    /\ UNCHANGED <<pathVars, policyVars, redirectVars>>

\* the promise that contentResolver or staticResolver names
resolverOf(src) == resolverP[IF src = "content" /\ ~shared THEN "content" ELSE "static"]

\* the ref-resolution service answers an invocation and resolveRef runs to its end
ServiceReplies ==
    /\ pc = "built"
    /\ microtasks = <<>>
    /\ \E k \in 1..Len(calls) : \E reply \in Replies(calls[k].invocation) :
          /\ calls[k].state = "inflight"
          /\ LET by      == calls[k].by
                 settled == resolveRefSettle(opts0[by].ref, reply)
             IN  /\ resolverP' = [resolverP EXCEPT ![by] = settled]
                 /\ log' = log \o resolveRefLog(opts0[by].ref, reply)
                 /\ calls' = [calls EXCEPT ![k].state = "done", ![k].reply = reply]
                 /\ microtasks' = IF settled.state = "fulfilled"
                                  THEN resolverReactions[by] ELSE <<>>
                 /\ resolverReactions' = [resolverReactions EXCEPT ![by] = <<>>]
    /\ UNCHANGED <<pc, pathVars, policyVars, redirectVars, params, planInfos, opts0, shared, optsP,
                   reactions, plan>>

head == microtasks[1]

running(job) == pc = "built" /\ microtasks # <<>> /\ head.job = job

\* the reaction of updateOpts: staticPromise or contentPromise is fulfilled
RunUpdateOpts ==
    /\ running("updateOpts")
    /\ optsP' = [optsP EXCEPT ![head.src] =
                    Fulfilled(updateOpts(opts0[head.src], resolverOf(head.src).value))]
    /\ microtasks' = Tail(microtasks) \o reactions[head.src]
    /\ reactions' = [reactions EXCEPT ![head.src] = <<>>]
    /\ UNCHANGED <<pc, pathVars, policyVars, redirectVars, params, planInfos, opts0, shared, resolverP,
                   resolverReactions, calls, plan, log>>

\* the callback of a raw, action or content 404 task runs on contentPromise's value
RunTaskReaction ==
    /\ running("task")
    /\ plan' = [plan EXCEPT ![head.segment][head.i].promise =
                   Fulfilled(descriptorOf(plan[head.segment][head.i], optsP.content.value,
                                          params, plan.idxOffset))]
    /\ microtasks' = Tail(microtasks)
    /\ UNCHANGED <<pc, pathVars, policyVars, redirectVars, params, planInfos, opts0, shared, resolverP,
                   resolverReactions, calls, optsP, reactions, log>>

\* the outer callback returning the descriptor itself, without contentPromise.then
RunOuterReactionNoBarrier ==
    /\ running("outer")
    /\ plan' = [plan EXCEPT ![head.segment][head.i].promise =
                   Fulfilled(descriptorOf(plan[head.segment][head.i], optsP.static.value,
                                          params, plan.idxOffset))]
    /\ microtasks' = Tail(microtasks)
    /\ UNCHANGED <<pc, pathVars, policyVars, redirectVars, params, planInfos, opts0, shared, resolverP,
                   resolverReactions, calls, optsP, reactions, log>>

\* the outer callback of a static task runs on staticPromise's value: it calls
\* contentPromise.then and returns that promise
RunOuterReaction ==
    /\ running("outer")
    /\ plan' = [plan EXCEPT ![head.segment][head.i].captured = optsP.static.value]
    /\ LET inner    == Job("inner", "content", head.segment, head.i)
           thenable == Job("thenable", "content", head.segment, head.i)
       IN  IF optsP.content.state = "fulfilled"
           THEN /\ microtasks' = Tail(microtasks) \o <<inner, thenable>>
                /\ UNCHANGED reactions
           ELSE /\ microtasks' = Tail(microtasks) \o <<thenable>>
                /\ reactions' = [reactions EXCEPT !.content = Append(@, inner)]
    /\ UNCHANGED <<pc, pathVars, policyVars, redirectVars, params, planInfos, opts0, shared, resolverP,
                   resolverReactions, calls, optsP, log>>

\* the inner callback of a static task runs once contentPromise is fulfilled
RunInnerReaction ==
    /\ running("inner")
    /\ LET task == plan[head.segment][head.i]
       IN  /\ plan' = [plan EXCEPT ![head.segment][head.i].inner =
                          Fulfilled(descriptorOf(task, task.captured, params, plan.idxOffset))]
           /\ microtasks' = Tail(microtasks)
                  \o (IF task.adoptRegistered
                      THEN <<Job("adopt", "content", head.segment, head.i)>> ELSE <<>>)
    /\ UNCHANGED <<pc, pathVars, policyVars, redirectVars, params, planInfos, opts0, shared, resolverP,
                   resolverReactions, calls, optsP, reactions, log>>

\* the job that makes a static task follow the promise its outer callback returned
RunThenableJob ==
    /\ running("thenable")
    /\ LET task == plan[head.segment][head.i]
       IN  IF task.inner.state = "fulfilled"
           THEN /\ microtasks' = Tail(microtasks)
                       \o <<Job("adopt", "content", head.segment, head.i)>>
                /\ UNCHANGED plan
           ELSE /\ microtasks' = Tail(microtasks)
                /\ plan' = [plan EXCEPT ![head.segment][head.i].adoptRegistered = TRUE]
    /\ UNCHANGED <<pc, pathVars, policyVars, redirectVars, params, planInfos, opts0, shared, resolverP,
                   resolverReactions, calls, optsP, reactions, log>>

\* a static task is fulfilled with the value of the promise it follows
RunAdoptReaction ==
    /\ running("adopt")
    /\ plan' = [plan EXCEPT ![head.segment][head.i].promise =
                   plan[head.segment][head.i].inner]
    /\ microtasks' = Tail(microtasks)
    /\ UNCHANGED <<pc, pathVars, policyVars, redirectVars, params, planInfos, opts0, shared, resolverP,
                   resolverReactions, calls, optsP, reactions, log>>

Next ==
    \/ Fetchers
    \/ ServiceReplies
    \/ RunUpdateOpts
    \/ RunTaskReaction
    \/ RunOuterReaction
    \/ RunInnerReaction
    \/ RunThenableJob
    \/ RunAdoptReaction

Spec == Init /\ [][Next]_vars

----------------------------------------------------------------------------
(* Properties of the plan, checked under Spec *)

built == pc = "built"

allTasks == plan.base \o plan.fetch404

isFulfilled(task) == task.promise.state = "fulfilled"

descriptor(task) == task.promise.value

\* every invocation has been answered and every promise job has run
quiescent ==
    /\ built
    /\ microtasks = <<>>
    /\ \A k \in 1..Len(calls) : calls[k].state = "done"

\* the descriptor's params carry every option of the resolved coordinate
carries(d, coordinate) ==
    /\ coordinate.state = "fulfilled"
    /\ \A key \in DOMAIN coordinate.value :
          key \in DOMAIN d.params /\ d.params[key] = coordinate.value[key]

\* C1: the base plan lists a raw-content fetch from the content source per
\* raw-fetch path descriptor, then an action invocation per action path
\* descriptor, then a raw-content fetch from the static source per raw-fetch
\* path descriptor, each group in the order of the path descriptors and every
\* descriptor with the default policy.
C1_BasePlanOrder ==
    built =>
        LET n  == Len(planInfos.infos)
            na == Len(planInfos.actioninfos)
        IN  /\ Len(plan.base) = n + na + n
            /\ \A k \in 1..n :
                  LET task == plan.base[k]
                      d    == descriptor(task)
                  IN  /\ task.kind = "raw"
                      /\ isFulfilled(task) =>
                            /\ d.resolve = "defaultResolver"
                            /\ d.name = HELIX_STATIC_ACTION
                            /\ d.params.path = planInfos.infos[k].path
                            /\ d.params.root = params["content.root"]
                            /\ carries(d, optsP.content)
            /\ \A k \in 1..na :
                  LET task == plan.base[n + k]
                      d    == descriptor(task)
                  IN  /\ task.kind = "action"
                      /\ isFulfilled(task) =>
                            /\ d.resolve = "defaultResolver"
                            /\ d.name # HELIX_STATIC_ACTION
                            /\ endsWith(d.name, <<"/">> \o planInfos.actioninfos[k].selector
                                  \o (IF planInfos.actioninfos[k].selector = <<>>
                                      THEN <<>> ELSE <<"_">>)
                                  \o planInfos.actioninfos[k].ext)
                            /\ d.params.path = planInfos.actioninfos[k].relPath \o <<".">> \o MD
                            /\ carries(d, optsP.content)
            /\ \A k \in 1..n :
                  LET task == plan.base[n + na + k]
                      d    == descriptor(task)
                  IN  /\ task.kind = "fallback"
                      /\ isFulfilled(task) =>
                            /\ d.resolve = "defaultResolver"
                            /\ d.name = HELIX_STATIC_ACTION
                            /\ d.params.path = planInfos.infos[k].path
                            /\ d.params.root = params["static.root"]
                            /\ carries(d, optsP.static)

\* a plan for two path descriptors has all six base descriptors available
C1_Witness ==
    /\ quiescent
    /\ Len(planInfos.infos) = 2
    /\ Len(plan.base) = 6
    /\ \A k \in 1..6 : isFulfilled(plan.base[k])
    /\ descriptor(plan.base[2]).params.path = <<"/", "a", ".", "b">>
    /\ descriptor(plan.base[3]).name = DEFAULT_PACKAGE \o <<"/">> \o HTML
    /\ descriptor(plan.base[6]).params.root = "sroot"

\* C4: the 404-fallback plan is empty when the first raw-fetch path
\* descriptor's extension is not 'html'; otherwise it holds exactly two
\* descriptors for '/404.html' with the error-page policy, the first built from
\* the content coordinate and the second from the static coordinate.
C4_Fetch404Plan ==
    built =>
        IF planInfos.infos[1].ext # HTML
        THEN plan.fetch404 = <<>>
        ELSE /\ Len(plan.fetch404) = 2
             /\ \A k \in 1..2 :
                   LET task == plan.fetch404[k]
                       d    == descriptor(task)
                   IN  isFulfilled(task) =>
                          /\ d.resolve = "errorPageResolver"
                          /\ d.name = HELIX_STATIC_ACTION
                          /\ d.params.path = PATH_404
                          /\ carries(d, IF k = 1 THEN optsP.content ELSE optsP.static)
                          /\ ("package" \in DOMAIN d.params) <=> (k = 1)
                          /\ ("root" \in DOMAIN d.params) <=> (k = 2)

\* both 404 descriptors of an html request are available, from different owners
C4_Witness ==
    /\ quiescent
    /\ planInfos.infos[1].ext = HTML
    /\ Len(plan.fetch404) = 2
    /\ isFulfilled(plan.fetch404[1])
    /\ isFulfilled(plan.fetch404[2])
    /\ descriptor(plan.fetch404[1]).params.owner = "p"
    /\ descriptor(plan.fetch404[2]).params.owner = "o"

\* the static and content coordinates have identical owner, repo and ref
sameCoordinate ==
    /\ params["static.owner"] = params["content.owner"]
    /\ params["static.repo"] = params["content.repo"]
    /\ params["static.ref"] = params["content.ref"]

coordinateOf(call) ==
    <<call.invocation.params.owner, call.invocation.params.repo, call.invocation.params.ref>>

\* every available descriptor carries the ref, and the branch if any, of the
\* one resolution
allFromOneResolution ==
    \A k \in 1..Len(allTasks) :
        isFulfilled(allTasks[k]) =>
            LET d == descriptor(allTasks[k])
            IN  /\ resolverP.static.state = "fulfilled"
                /\ d.params.ref = resolverP.static.value.ref
                /\ ("branch" \in DOMAIN d.params) <=> ("branch" \in DOMAIN resolverP.static.value)
                /\ "branch" \in DOMAIN d.params => d.params.branch = resolverP.static.value.branch

noCoordinateResolvedTwice ==
    \A i, j \in 1..Len(calls) : i # j => coordinateOf(calls[i]) # coordinateOf(calls[j])

\* C5 (as stated): with identical static and content coordinates exactly one
\* call to the ref-resolution service is issued, every descriptor is built from
\* that one result, and no coordinate is resolved twice.
C5_AsStated ==
    built =>
        /\ sameCoordinate => (Len(calls) = 1 /\ allFromOneResolution)
        /\ noCoordinateResolvedTwice

\* a ref of 40 hexadecimal characters, in either letter case
isHex40(ref) ==
    /\ Len(ref) = ShaLength
    /\ \A i \in 1..Len(ref) : ref[i] \in HexLower \cup HexUpper

\* C5 (amended): with identical static and content coordinates at most one call
\* to the ref-resolution service is issued: exactly one when the shared ref is
\* not a 40-character hexadecimal string and none when it is; every descriptor
\* of both sources is built from that one resolution result, and in no request
\* is a coordinate resolved more than once.
C5_OneResolution ==
    built =>
        /\ sameCoordinate =>
              /\ Len(calls) = (IF isHex40(params["static.ref"]) THEN 0 ELSE 1)
              /\ allFromOneResolution
        /\ noCoordinateResolvedTwice

\* identical coordinates with a branch ref: one call, answered with a sha, and
\* all eight descriptors of the plan available
C5_Witness ==
    /\ quiescent
    /\ sameCoordinate
    /\ params["static.ref"] = Master
    /\ Len(calls) = 1
    /\ calls[1].reply.sha # <<>>
    /\ Len(allTasks) = 8
    /\ \A k \in 1..8 : isFulfilled(allTasks[k])
    /\ descriptor(allTasks[1]).params.branch = Master

\* the resolveRef call whose result a task's descriptor is built from
resolutionOf(task) ==
    IF task.kind \in {"fallback", "static404"} \/ shared THEN "static" ELSE "content"

\* C6: whenever the ref-resolution service answers without a sha, with whatever
\* status code, or the invocation throws, resolveRef completes with
\* {ref: originalRef} and no branch; no promise of the plan is ever rejected and
\* the descriptors built from that coordinate use the original ref.
C6_ResolutionNeverFails ==
    built =>
        /\ \A src \in {"static", "content"} :
              /\ resolverP[src].state # "rejected"
              /\ optsP[src].state # "rejected"
        /\ \A k \in 1..Len(allTasks) : allTasks[k].promise.state # "rejected"
        /\ \A c \in 1..Len(calls) :
              (calls[c].state = "done" /\ (calls[c].reply.threw \/ calls[c].reply.sha = <<>>)) =>
                  /\ resolverP[calls[c].by] = Fulfilled([ref |-> opts0[calls[c].by].ref])
                  /\ \A k \in 1..Len(allTasks) :
                        (isFulfilled(allTasks[k]) /\ resolutionOf(allTasks[k]) = calls[c].by) =>
                            /\ descriptor(allTasks[k]).params.ref = opts0[calls[c].by].ref
                            /\ "branch" \notin DOMAIN descriptor(allTasks[k]).params

\* the content resolution threw, the static one answered 500 without sha, and
\* the whole plan is available with the original refs
C6_Witness ==
    /\ quiescent
    /\ Len(calls) = 2
    /\ \E c \in 1..2 : calls[c].by = "content" /\ calls[c].reply.threw
    /\ \E c \in 1..2 : calls[c].by = "static" /\ calls[c].reply.statusCode = 500
    /\ \A k \in 1..Len(allTasks) : isFulfilled(allTasks[k])
    /\ descriptor(plan.base[1]).params.ref = Master
    /\ "branch" \notin DOMAIN descriptor(plan.base[1]).params

\* C7: a ref of 40 hexadecimal characters, in either letter case, is never sent
\* to the ref-resolution service: for the static and for the content coordinate
\* resolveRef returns {ref} without branch and issues no call.
C7_ShaNeverSent ==
    built =>
        /\ \A c \in 1..Len(calls) : ~isHex40(calls[c].invocation.params.ref)
        /\ \A src \in {"static", "content"} :
              isHex40(opts0[src].ref) =>
                  /\ resolverOf(src) = Fulfilled([ref |-> opts0[src].ref])
                  /\ \A c \in 1..Len(calls) : coordinateOf(calls[c]) #
                        <<opts0[src].owner, opts0[src].repo, opts0[src].ref>>

\* an upper-case and a lower-case sha: no call at all, and the plan is available
\* with those refs
C7_Witness ==
    /\ quiescent
    /\ params["static.ref"] = ShaMixed
    /\ params["content.ref"] = ShaLower
    /\ calls = <<>>
    /\ \A k \in 1..Len(allTasks) : isFulfilled(allTasks[k])
    /\ descriptor(plan.base[1]).params.ref = ShaLower
    /\ descriptor(plan.base[Len(plan.base)]).params.ref = ShaMixed
    /\ "branch" \notin DOMAIN descriptor(plan.base[1]).params

\* the task is built from the static coordinate
isStaticTask(task) == task.kind \in {"fallback", "static404"}

\* C15: no static-source descriptor (the static raw-fetch descriptors of the
\* base plan and the static '/404.html' descriptor) is available before the
\* content coordinate's resolution has completed, whichever resolution
\* completes first, although its parameters are those of the static
\* resolution only.
C15_OrderingBarrier ==
    built =>
        \A k \in 1..Len(allTasks) :
            LET task == allTasks[k]
                d    == descriptor(task)
            IN  /\ (isStaticTask(task) /\ task.inner.state = "fulfilled") =>
                      optsP.content.state = "fulfilled"
                /\ (isStaticTask(task) /\ isFulfilled(task)) =>
                      /\ resolverOf("content").state = "fulfilled"
                      /\ optsP.content.state = "fulfilled"
                      /\ \A c \in 1..Len(calls) :
                            calls[c].by = "content" => calls[c].state = "done"
                      /\ carries(d, optsP.static)
                      /\ d.params.owner = params["static.owner"]
                      /\ d.params.ref = resolverP.static.value.ref
                      /\ "package" \notin DOMAIN d.params

\* the static resolution was answered first (its log entry precedes the content
\* one) and the static descriptors are available, after the content resolution
C15_Witness ==
    /\ quiescent
    /\ ~shared
    /\ params["static.ref"] = Master
    /\ params["content.ref"] = NotHex40
    /\ Len(log) = 2
    /\ log[1].ref = Master
    /\ log[2].ref = NotHex40
    /\ \E k \in 1..Len(plan.base) : isStaticTask(plan.base[k])
    /\ \A k \in 1..Len(allTasks) :
          isStaticTask(allTasks[k]) =>
              /\ isFulfilled(allTasks[k])
              /\ descriptor(allTasks[k]).params.ref = Master

\* the answered call of the resolution a task is built from, 0 when that
\* resolution issued no call
callOf(task) ==
    LET C == {c \in 1..Len(calls) : calls[c].by = resolutionOf(task)}
    IN  IF C = {} THEN 0 ELSE CHOOSE c \in C : TRUE

\* the ref parameter of the coordinate a task is built from
originalRef(task) ==
    params[IF isStaticTask(task) THEN "static.ref" ELSE "content.ref"]

\* C16: every available descriptor carries its coordinate's resolved
\* identifier: when the service returned a sha, params.ref is the sha and
\* params.branch is the original ref; when the resolution short-circuited or
\* degraded, params.ref is the original ref and no branch is set.
C16_ResolvedIdentifier ==
    built =>
        \A k \in 1..Len(allTasks) :
            LET task == allTasks[k]
                d    == descriptor(task)
                c    == callOf(task)
            IN  isFulfilled(task) =>
                   IF c # 0 /\ calls[c].reply.sha # <<>>
                   THEN /\ calls[c].state = "done"
                        /\ d.params.ref = calls[c].reply.sha
                        /\ "branch" \in DOMAIN d.params
                        /\ d.params.branch = originalRef(task)
                   ELSE /\ c # 0 => calls[c].state = "done"
                        /\ d.params.ref = originalRef(task)
                        /\ "branch" \notin DOMAIN d.params

\* the content ref was rewritten to a sha and keeps the branch, the static ref
\* is a sha already and has no branch
C16_Witness ==
    /\ quiescent
    /\ params["content.ref"] = Master
    /\ params["static.ref"] = ShaLower
    /\ Len(calls) = 1
    /\ calls[1].reply.sha # <<>>
    /\ \A k \in 1..Len(allTasks) : isFulfilled(allTasks[k])
    /\ descriptor(plan.base[1]).params.ref = calls[1].reply.sha
    /\ descriptor(plan.base[1]).params.branch = Master
    /\ descriptor(plan.base[Len(plan.base)]).params.ref = ShaLower
    /\ "branch" \notin DOMAIN descriptor(plan.base[Len(plan.base)]).params

\* C17 (as stated): every descriptor of the plan, in the base segment and in
\* the 404-fallback segment, records an idxOffset.
C17_AsStated ==
    built =>
        \A k \in 1..Len(allTasks) :
            isFulfilled(allTasks[k]) => "idxOffset" \in DOMAIN descriptor(allTasks[k])

\* C17 (amended): only the descriptors of the 404-fallback segment record an
\* idxOffset, and both record the same one, the number of descriptors of the
\* base segment; a descriptor of the base segment records neither an idxOffset
\* nor an index, its ordering index being its position in the base segment.
C17_IdxOffsetOn404Only ==
    built =>
        /\ \A k \in 1..Len(plan.base) :
              isFulfilled(plan.base[k]) =>
                  DOMAIN descriptor(plan.base[k]) = {"resolve", "name", "blocking", "params"}
        /\ \A k \in 1..Len(plan.fetch404) :
              isFulfilled(plan.fetch404[k]) =>
                  /\ "idxOffset" \in DOMAIN descriptor(plan.fetch404[k])
                  /\ descriptor(plan.fetch404[k]).idxOffset = Len(plan.base)
                  /\ "idx" \notin DOMAIN descriptor(plan.fetch404[k])

\* a plan of six base descriptors without idxOffset and two 404 descriptors
\* with idxOffset 6
C17_Witness ==
    /\ quiescent
    /\ Len(plan.base) = 6
    /\ Len(plan.fetch404) = 2
    /\ \A k \in 1..Len(allTasks) : isFulfilled(allTasks[k])
    /\ "idxOffset" \notin DOMAIN descriptor(plan.base[1])
    /\ descriptor(plan.fetch404[1]).idxOffset = 6
    /\ descriptor(plan.fetch404[2]).idxOffset = 6

\* the kinds of the tasks of base + fetch404, in plan order
kinds == [k \in 1..Len(allTasks) |-> allTasks[k].kind]

\* what an available descriptor is, read from the descriptor alone
kindOfDescriptor(d) ==
    IF d.resolve = "errorPageResolver" /\ d.params.path = PATH_404
    THEN (IF "package" \in DOMAIN d.params THEN "content404" ELSE "static404")
    ELSE IF d.name # HELIX_STATIC_ACTION THEN "action"
    ELSE IF "package" \in DOMAIN d.params THEN "raw"
    ELSE "fallback"

\* every available descriptor is of the kind of its task
descriptorsAreOfTheirKind ==
    \A k \in 1..Len(allTasks) :
        isFulfilled(allTasks[k]) => kindOfDescriptor(descriptor(allTasks[k])) = kinds[k]

\* C19 (as stated): in base + fetch404 every action descriptor precedes every
\* content raw-fetch descriptor, which precedes every static raw-fetch
\* descriptor, which precedes every 404 descriptor.
C19_AsStated ==
    built =>
        LET rank(kind) == CASE kind = "action" -> 1
                            [] kind = "raw" -> 2
                            [] kind = "fallback" -> 3
                            [] OTHER -> 4
        IN  /\ descriptorsAreOfTheirKind
            /\ \A i, j \in 1..Len(kinds) : i < j => rank(kinds[i]) <= rank(kinds[j])

\* C19 (amended): in base + fetch404 every content raw-fetch descriptor
\* precedes every action descriptor, which precedes every static raw-fetch
\* descriptor, which precedes every 404 descriptor: raw passthrough from the
\* content source is tried before the rendered markdown.
C19_RawBeforeAction ==
    built =>
        LET rank(kind) == CASE kind = "raw" -> 1
                            [] kind = "action" -> 2
                            [] kind = "fallback" -> 3
                            [] OTHER -> 4
        IN  /\ descriptorsAreOfTheirKind
            /\ \A i, j \in 1..Len(kinds) : i < j => rank(kinds[i]) <= rank(kinds[j])
            /\ \E i \in 1..Len(kinds) : kinds[i] = "raw"
            /\ \E i \in 1..Len(kinds) : kinds[i] = "action"
            /\ \E i \in 1..Len(kinds) : kinds[i] = "fallback"

\* a whole plan is available: two raw, two action, two static and two 404
\* descriptors, in that order
C19_Witness ==
    /\ quiescent
    /\ kinds = <<"raw", "raw", "action", "action", "fallback", "fallback",
                 "content404", "static404">>
    /\ \A k \in 1..Len(allTasks) :
          isFulfilled(allTasks[k]) /\ kindOfDescriptor(descriptor(allTasks[k])) = kinds[k]

\* the content.package parameter, 'default' when it is missing or empty
packageOrDefault ==
    IF params["content.package"] = <<>>
    THEN DEFAULT_PACKAGE ELSE params["content.package"]

\* C20: for every action path descriptor, the action descriptor's target name
\* is '<package or "default">/<selector + "_" when the selector is
\* non-empty><ext>', where package is the content.package parameter, and its
\* params.path is the descriptor's relPath followed by '.md'.
C20_ActionName ==
    built =>
        \A k \in 1..Len(planInfos.actioninfos) :
            LET info == planInfos.actioninfos[k]
                task == plan.base[Len(planInfos.infos) + k]
                d    == descriptor(task)
            IN  /\ task.kind = "action"
                /\ isFulfilled(task) =>
                      /\ d.name = packageOrDefault \o <<"/">>
                                  \o (IF info.selector # <<>>
                                      THEN info.selector \o <<"_">> ELSE <<>>)
                                  \o info.ext
                      /\ d.params.path = info.relPath \o <<".", "m", "d">>

\* the action descriptor of '/a.b.html' with package 'p' is available
C20_Witness ==
    /\ quiescent
    /\ params["path"] = <<"/", "a", ".", "b", ".">> \o HTML
    /\ params["content.package"] = <<"p">>
    /\ Len(plan.base) = 3
    /\ isFulfilled(plan.base[2])
    /\ descriptor(plan.base[2]).name = <<"p", "/", "b", "_">> \o HTML
    /\ descriptor(plan.base[2]).params.path = <<"/", "a", ".", "m", "d">>

\* The plan under fair scheduling, once fetchers has returned it: every queued
\* promise job is run by the job queue, and every call to the ref-resolution
\* service eventually returns or fails.
SpecLive ==
    /\ Init
    /\ [][Next]_vars
    /\ WF_vars(ServiceReplies)
    /\ WF_vars(RunUpdateOpts)
    /\ WF_vars(RunTaskReaction)
    /\ WF_vars(RunOuterReaction)
    /\ WF_vars(RunInnerReaction)
    /\ WF_vars(RunThenableJob)
    /\ WF_vars(RunAdoptReaction)

\* every descriptor promise of the base plan and of the 404-fallback plan is
\* available
allAvailable == built /\ \A k \in 1..Len(allTasks) : isFulfilled(allTasks[k])

\* no descriptor promise is rejected
noneRejected == \A k \in 1..Len(allTasks) : allTasks[k].promise.state # "rejected"

\* C22: provided every call to the ref-resolution service eventually returns
\* or fails, every descriptor promise of the base plan and of the 404-fallback
\* plan eventually becomes available and stays so, and none is ever rejected,
\* whatever the order in which the two resolutions complete and whether or not
\* the two coordinates share one resolution.
C22_EventuallyAvailable ==
    /\ built ~> allAvailable
    /\ [][allAvailable => allAvailable']_vars
    /\ [](noneRejected)

\* two separate resolutions were both answered with a sha and all eight
\* descriptor promises of the plan are available
C22_Witness ==
    /\ allAvailable
    /\ quiescent
    /\ ~shared
    /\ Len(calls) = 2
    /\ calls[1].reply.sha # <<>>
    /\ calls[2].reply.sha # <<>>
    /\ Len(plan.base) = 6
    /\ Len(plan.fetch404) = 2

----------------------------------------------------------------------------
(* The redirect adapters at work *)

TargetChars == {"&", "<", ">", "a"}

\* the redirect targets a redirect promise can carry
Targets == SeqsUpTo(TargetChars, MaxTargetLen) \cup {null}

\* how the invocation of the redirect service can end
RedirectReplies ==
    { [threw |-> TRUE, error |-> "invocation failed"],
      [threw |-> FALSE, result |-> [statusCode |-> 204]],
      [threw |-> FALSE, result |-> [statusCode |-> 301]] }

InitRedirect ==
    /\ pc = "redirect"
    /\ IdlePath
    /\ IdlePolicy
    /\ IdlePlan
    /\ IdleRedirect

\* redirect(params, ow) up to its await: the redirect service is invoked
Redirect ==
    /\ pc = "redirect"
    /\ redirectCall = "none"
    /\ redirectCall' = "pending"
    /\ UNCHANGED <<pc, pathVars, policyVars, planVars, redirectPromise, abortPc, abortP>>

\* the invocation returns or fails and redirect settles its promise
RedirectReturns ==
    /\ redirectCall = "pending"
    /\ \E reply \in RedirectReplies :
          IF reply.threw
          THEN /\ redirectCall' = "failed"
               /\ redirectPromise' = Rejected(reply.error)
          ELSE /\ redirectCall' = "returned"
               /\ redirectPromise' = Fulfilled(redirectResult(reply.result))
    /\ UNCHANGED <<pc, pathVars, policyVars, planVars, abortPc, abortP>>

\* the caller hands abortRedirect a promise of a redirect with a target
GivenRedirect ==
    /\ pc = "redirect"
    /\ redirectCall = "none"
    /\ \E target \in Targets :
          redirectPromise' = Fulfilled([type |-> "internal", target |-> target, result |-> null])
    /\ redirectCall' = "given"
    /\ UNCHANGED <<pc, pathVars, policyVars, planVars, abortPc, abortP>>

\* abortRedirect(redirectPromise) up to its await
AbortRedirect ==
    /\ redirectCall # "none"
    /\ abortPc = "uncalled"
    /\ abortPc' = "awaiting"
    /\ UNCHANGED <<pc, pathVars, policyVars, planVars, redirectCall, redirectPromise, abortP>>

\* abortRedirect resumes after its await
AbortRedirectResumes ==
    /\ abortPc = "awaiting"
    /\ redirectPromise.state # "pending"
    /\ abortP' = abortRedirectSettle(redirectPromise)
    /\ abortPc' = "returned"
    /\ UNCHANGED <<pc, pathVars, policyVars, planVars, redirectCall, redirectPromise>>

NextRedirect ==
    \/ Redirect
    \/ RedirectReturns
    \/ GivenRedirect
    \/ AbortRedirect
    \/ AbortRedirectResumes

SpecRedirect == InitRedirect /\ [][NextRedirect]_vars

\* the HTML entity of a character
entityOf(c) ==
    IF c = "&" THEN AMP ELSE IF c = "<" THEN LT ELSE IF c = ">" THEN GT ELSE <<c>>

\* the target with every character replaced by its entity, '' for no target
RECURSIVE entityEscaped(_)
entityEscaped(target) ==
    IF target = null \/ target = <<>> THEN <<>>
    ELSE entityOf(Head(target)) \o entityEscaped(Tail(target))

\* the result value of a detected redirect loop
loopResult(target) ==
    [statusCode |-> 508, body |-> TOO_MANY_REDIRECTS \o entityEscaped(target)]

\* C14 (as stated): abortRedirect completes with statusCode 508 and a body
\* naming the entity-escaped redirect target, never with an exception, for
\* every outcome of the redirect-service call, including a failed call.
C14_AsStated ==
    abortPc = "returned" =>
        /\ abortP.state = "fulfilled"
        /\ abortP.value.statusCode = 508
        /\ redirectPromise.state = "fulfilled" =>
              abortP.value = loopResult(redirectPromise.value.target)

\* C14 (amended): whenever the redirect promise is fulfilled, abortRedirect
\* completes with statusCode 508 and a body naming the entity-escaped
\* redirect target (the empty text when there is no target), never with an
\* exception; when the redirect-service call failed, the redirect promise is
\* rejected and abortRedirect fails with that same error.
C14_AbortRedirect ==
    /\ abortPc = "returned" =>
          /\ redirectPromise.state = "fulfilled" =>
                abortP = Fulfilled(loopResult(redirectPromise.value.target))
          /\ redirectPromise.state = "rejected" =>
                abortP = Rejected(redirectPromise.value)
          /\ redirectPromise.state # "pending"
    /\ abortPc # "returned" => abortP = Pending
    /\ redirectCall = "failed" <=> redirectPromise.state = "rejected"
    /\ redirectCall = "returned" =>
          (redirectPromise.state = "fulfilled" /\ redirectPromise.value.target = null)

\* abortRedirect has returned 508 for a target that needs escaping
C14_Witness ==
    /\ abortPc = "returned"
    /\ redirectPromise.state = "fulfilled"
    /\ redirectPromise.value.target = <<"<", "&", "a">>
    /\ abortP.state = "fulfilled"
    /\ abortP.value.statusCode = 508
    /\ abortP.value.body = TOO_MANY_REDIRECTS \o LT \o AMP \o <<"a">>

====
